---- MODULE Spec2Model ----
(***************************************************************************)
(* Model of the execution engine of gihelper:                              *)
(*   - DecisionEngine (src/engine/decision.py): the engine state, the     *)
(*     step cursor, the stop and pause events, start / pause / resume /   *)
(*     stop / reset and the execution loop that runs in its own thread;   *)
(*   - GameController (src/automation/controller.py): the paused and      *)
(*     emergency-stopped flags, the held-key set and the input library's  *)
(*     key state.                                                         *)
(* The control calls are made by one caller (the UI thread); every        *)
(* start() that takes effect launches a new loop thread.  Neither class   *)
(* takes a lock, so each access to a shared field is a step of its own    *)
(* wherever another thread's access in between can change the outcome.    *)
(***************************************************************************)
EXTENDS Integers, Sequences, FiniteSets, TLC

(* ---------------------------------------------------------------------- *)
(* Bounds                                                                  *)
(* ---------------------------------------------------------------------- *)

\* number of loop threads that can be alive together
MaxLoops == 2

Loops == 1..MaxLoops

NoThread == 0

\* value of the loop's local "step" before its first assignment
NoStep == -1

(* ---------------------------------------------------------------------- *)
(* Constants of the program                                                *)
(* ---------------------------------------------------------------------- *)

\* GameController.KEY_FORWARD
KEY_FORWARD == "w"

\* ExecutionState
ExecutionState == {"idle", "running", "paused", "stopped", "completed", "error"}

\* the values GameDetector.detect_game_state can return
GameState == {"loading", "dialog", "map", "pause_menu", "world", "unknown"}

\* ActionType values whose handlers are modelled
ActionKinds == {"move", "climb", "interact", "teleport"}

\* the guides the engine is run on (GuideStep.action_type of each step)
Guides ==
    { << >>,
      <<"climb">>,
      <<"move", "interact">>,
      <<"teleport">> }

\* the guides of the runs that nobody pauses or stops
RunGuides ==
    Guides \cup { <<"interact", "teleport">>,
                  <<"teleport", "move", "interact">> }

VARIABLES
    state,                \* DecisionEngine.state
    current_step,         \* DecisionEngine.current_step (0-based cursor)
    guide_steps,          \* DecisionEngine.guide_steps
    stop_event,           \* DecisionEngine._stop_event is set
    pause_event,          \* DecisionEngine._pause_event is set (set = not paused)
    execution_thread,     \* DecisionEngine._execution_thread (NoThread = None)
    is_paused,            \* GameController.is_paused
    is_emergency_stopped, \* GameController.is_emergency_stopped
    pressed_keys,         \* GameController._pressed_keys
    keys_down,            \* keys the input library holds down (keyDown without keyUp)
    pc,                   \* position of each loop thread
    step,                 \* the loop's local "step": index of the step it fetched last (NoStep = unbound)
    call,                 \* the control call in progress on the caller's thread, or
                          \* (at mpc = "idle") the last one that returned with effect
    mpc,                  \* position inside that call ("idle" = no call in progress)
    on_progress,          \* DecisionEngine.on_progress is set (a callback is registered)
    progress,             \* the last ExecutionProgress handed to on_progress
    faults,               \* the input library raises on calls (its FAILSAFE condition)
    nav_op,               \* the Navigator operation under way ("none" = no call)
    nav_pc,               \* position inside that operation
    max_attempts,         \* its argument max_attempts / max_retries
    attempt,              \* its loop variable "attempt"
    events,               \* what the operation has done so far, in order
    result,               \* how the operation ended ("none" = still running)
    loading_started,      \* _wait_for_teleport_complete's local loading_started
    fn,                   \* the function applied on its own ("none" = no call)
    arg,                  \* its arguments
    ret                   \* what it returned ("pending" = not applied yet)

vars == << state, current_step, guide_steps, stop_event, pause_event,
           execution_thread, is_paused, is_emergency_stopped, pressed_keys,
           keys_down, pc, step, call, mpc, on_progress, progress, faults,
           nav_op, nav_pc, max_attempts, attempt, events, result,
           loading_started, fn, arg, ret >>

\* what no step of the engine or the controller changes
envVars == << guide_steps, on_progress, faults >>
navVars == << nav_op, nav_pc, max_attempts, attempt, events, result,
             loading_started >>
pureVars == << fn, arg, ret >>

engineVars == << state, current_step, stop_event, pause_event, execution_thread >>
ctrlVars == << is_paused, is_emergency_stopped, pressed_keys, keys_down >>
loopVars == << pc, step >>
callVars == << call, mpc >>

NumSteps == Len(guide_steps)

\* a loop thread that has been launched and has not returned
Alive(t) == pc[t] # "dead"

\* positions inside _execute_step: a step handler is running
InHandler == {"exec", "hold_down", "hold_sleep", "timed_down", "timed_hold"}

\* positions where the loop thread sits in a wait that can outlast the
\* 2 second join of stop(): a handler's sleep or polling loop, the recovery
Blocking == {"exec", "hold_sleep", "timed_hold", "ret_fail"}

\* GameController: "if self.is_paused or self.is_emergency_stopped: return ActionResult(False, ...)"
Blocked == is_paused \/ is_emergency_stopped

\* no ExecutionProgress has been handed to on_progress yet
NoProgress == [state |-> "none", error_message |-> ""]

\* DecisionEngine.update_progress ("if self.on_progress:" is tested by the
\* caller of this operator): the ExecutionProgress it builds, of which
\* the model keeps the state and the error message.  The constructor call
\* passes no error_message, so the field has the dataclass default "".
ExecutionProgress == [state |-> state, error_message |-> ""]

\* no Navigator operation has been called
NavIdle ==
    /\ nav_op = "none"
    /\ nav_pc = "idle"
    /\ max_attempts = 0
    /\ attempt = 0
    /\ events = << >>
    /\ result = "none"
    /\ loading_started = FALSE

\* the call of a function has not returned yet
Pending == [status |-> "pending"]

\* no function is applied on its own
NoCall ==
    /\ fn = "none"
    /\ arg = << >>
    /\ ret = Pending

\* DecisionEngine.__init__ and GameController.__init__, then a guide of gs
\* loaded (load_guide / analyze_video before the first start); cb = the owner
\* registers an on_progress callback, f = the input library raises on calls
Built(gs, cb, f) ==
    /\ state = "idle"
    /\ current_step = 0
    /\ guide_steps \in gs
    /\ stop_event = FALSE
    /\ pause_event = TRUE
    /\ execution_thread = NoThread
    /\ is_paused = FALSE
    /\ is_emergency_stopped = FALSE
    /\ pressed_keys = {}
    /\ keys_down = {}
    /\ pc = [t \in Loops |-> "dead"]
    /\ step = [t \in Loops |-> NoStep]
    /\ call = "none"
    /\ mpc = "idle"
    /\ on_progress = cb
    /\ progress = NoProgress
    /\ faults = f
    /\ NavIdle

Constructed(gs, cb, f) == Built(gs, cb, f) /\ NoCall

\* an engine driven without a progress callback, on a working input library
InitOn(gs) == Constructed(gs, FALSE, FALSE)

Init == InitOn(Guides)


(* ---------------------------------------------------------------------- *)
(* GameController                                                          *)
(* ---------------------------------------------------------------------- *)

\* the outcomes of one call into the input library (self._input.keyDown,
\* keyUp, press): TRUE = it acts and returns, FALSE = it raises without acting,
\* as the library does on every call while its FAILSAFE condition holds
InputOk == IF faults THEN BOOLEAN ELSE {TRUE}

\* GameController.release_all_keys, the loop over list(self._pressed_keys):
\* release_key(key) issues keyUp(key) and discards key, for every key of the
\* snapshot; a keyUp that raises is caught by release_key, which then leaves
\* the key in the set.  The closing self._pressed_keys.clear() is a later step
\* of the caller (a loop thread's hold_key can add a key in between).
ReleaseSnapshot ==
    \E ok \in InputOk :
      IF ok
      THEN /\ keys_down' = keys_down \ pressed_keys
           /\ pressed_keys' = {}
      ELSE UNCHANGED << keys_down, pressed_keys >>

(* ---------------------------------------------------------------------- *)
(* DecisionEngine: the control calls, made from the caller's thread        *)
(* ---------------------------------------------------------------------- *)

\* the lowest loop-thread slot that is free for threading.Thread(...)
FreeSlot == CHOOSE t \in Loops : ~Alive(t) /\ \A u \in Loops : ~Alive(u) => t <= u

\* start() without its "already running" test: a second start() while Running
\* would launch a second loop
StartUnguarded ==
    /\ mpc = "idle"
    /\ IF guide_steps = << >>
       THEN UNCHANGED << engineVars, loopVars, call >>
       ELSE /\ \E t \in Loops : ~Alive(t)
            /\ state' = "running"
            /\ stop_event' = FALSE
            /\ pause_event' = TRUE
            /\ execution_thread' = FreeSlot
            /\ pc' = [pc EXCEPT ![FreeSlot] = "wait_game"]
            /\ call' = "start"
            /\ UNCHANGED << current_step, step >>
    /\ UNCHANGED << envVars, progress, navVars, pureVars, ctrlVars, mpc >>

\* DecisionEngine.start
Start ==
    /\ mpc = "idle"
    /\ IF guide_steps = << >> \/ state = "running"
       THEN UNCHANGED << engineVars, loopVars, call >>
       ELSE /\ \E t \in Loops : ~Alive(t)
            /\ state' = "running"
            /\ stop_event' = FALSE
            /\ pause_event' = TRUE
            /\ execution_thread' = FreeSlot
            /\ pc' = [pc EXCEPT ![FreeSlot] = "wait_game"]
            /\ call' = "start"
            /\ UNCHANGED << current_step, step >>
    /\ UNCHANGED << envVars, progress, navVars, pureVars, ctrlVars, mpc >>

\* pause() without its test of the state: it would pause from any state
PauseUnguarded ==
    /\ mpc = "idle"
    /\ call' = "pause"
    /\ mpc' = "pause_set"
    /\ UNCHANGED << envVars, progress, navVars, pureVars, engineVars, ctrlVars, loopVars >>

\* DecisionEngine.pause: "if self.state == ExecutionState.RUNNING:"
PauseCall ==
    /\ mpc = "idle"
    /\ IF state = "running"
       THEN /\ call' = "pause"
            /\ mpc' = "pause_set"
       ELSE UNCHANGED << call, mpc >>
    /\ UNCHANGED << envVars, progress, navVars, pureVars, engineVars, ctrlVars, loopVars >>

\* DecisionEngine.pause: _pause_event.clear(); state = PAUSED; then
\* GameController.pause: is_paused = True and the loop of release_all_keys
PauseSet ==
    /\ mpc = "pause_set"
    /\ pause_event' = FALSE
    /\ state' = "paused"
    /\ is_paused' = TRUE
    /\ ReleaseSnapshot
    /\ mpc' = "pause_clear"
    /\ UNCHANGED << envVars, progress, navVars, pureVars, current_step, stop_event, execution_thread,
                    is_emergency_stopped, loopVars, call >>

\* GameController.release_all_keys: self._pressed_keys.clear(); pause() returns
PauseClear ==
    /\ mpc = "pause_clear"
    /\ pressed_keys' = {}
    /\ mpc' = "idle"
    /\ UNCHANGED call
    /\ UNCHANGED << envVars, progress, navVars, pureVars, engineVars, is_paused, is_emergency_stopped,
                    keys_down, loopVars >>

\* DecisionEngine.resume: "if self.state == ExecutionState.PAUSED:"
ResumeCall ==
    /\ mpc = "idle"
    /\ IF state = "paused"
       THEN /\ call' = "resume"
            /\ mpc' = "resume_set"
       ELSE UNCHANGED << call, mpc >>
    /\ UNCHANGED << envVars, progress, navVars, pureVars, engineVars, ctrlVars, loopVars >>

\* DecisionEngine.resume: _pause_event.set(); state = RUNNING;
\* GameController.resume: is_paused = False; resume() returns
ResumeSet ==
    /\ mpc = "resume_set"
    /\ pause_event' = TRUE
    /\ state' = "running"
    /\ is_paused' = FALSE
    /\ mpc' = "idle"
    /\ UNCHANGED call
    /\ UNCHANGED << envVars, progress, navVars, pureVars, current_step, stop_event, execution_thread,
                    is_emergency_stopped, pressed_keys, keys_down, loopVars >>

\* DecisionEngine.stop, entered directly (c = "stop") or from reset (c = "reset"):
\* _stop_event.set(); _pause_event.set(); GameController.emergency_stop:
\* is_emergency_stopped = True and the loop of release_all_keys
StopSignal(c) ==
    /\ mpc = "idle"
    /\ call' = c
    /\ stop_event' = TRUE
    /\ pause_event' = TRUE
    /\ is_emergency_stopped' = TRUE
    /\ ReleaseSnapshot
    /\ mpc' = "stop_state"
    /\ UNCHANGED << envVars, progress, navVars, pureVars, state, current_step, execution_thread,
                    is_paused, loopVars >>

StopCall == StopSignal("stop")

ResetCall == StopSignal("reset")

\* release_all_keys: self._pressed_keys.clear(); then DecisionEngine.stop:
\* self.state = ExecutionState.STOPPED
StopState ==
    /\ mpc = "stop_state"
    /\ pressed_keys' = {}
    /\ state' = "stopped"
    /\ mpc' = "stop_join"
    /\ UNCHANGED << envVars, progress, navVars, pureVars, current_step, stop_event, pause_event,
                    execution_thread, is_paused, is_emergency_stopped,
                    keys_down, loopVars, call >>

\* stop() returns to its caller: to the UI, or into the rest of reset()
StopReturn ==
    /\ mpc' = IF call = "reset" THEN "reset_set" ELSE "idle"
    /\ UNCHANGED call

\* DecisionEngine.stop: "if self._execution_thread: self._execution_thread.join(timeout=2)"
\* with no thread, or with the thread's loop returned
StopJoin ==
    /\ mpc = "stop_join"
    /\ IF execution_thread = NoThread THEN TRUE ELSE ~Alive(execution_thread)
    /\ StopReturn
    /\ UNCHANGED << envVars, progress, navVars, pureVars, engineVars, ctrlVars, loopVars >>

\* join(timeout=2) gives up: the thread is inside a wait longer than the timeout
StopJoinTimeout ==
    /\ mpc = "stop_join"
    /\ IF execution_thread = NoThread THEN FALSE ELSE pc[execution_thread] \in Blocking
    /\ StopReturn
    /\ UNCHANGED << envVars, progress, navVars, pureVars, engineVars, ctrlVars, loopVars >>

\* DecisionEngine.reset after stop(): current_step = 0; state = IDLE;
\* GameController.reset: both flags False and the loop of release_all_keys
ResetSet ==
    /\ mpc = "reset_set"
    /\ current_step' = 0
    /\ state' = "idle"
    /\ is_paused' = FALSE
    /\ is_emergency_stopped' = FALSE
    /\ ReleaseSnapshot
    /\ mpc' = "reset_clear"
    /\ UNCHANGED << envVars, progress, navVars, pureVars, stop_event, pause_event, execution_thread,
                    loopVars, call >>

\* release_all_keys: self._pressed_keys.clear(); reset() returns
ResetClear ==
    /\ mpc = "reset_clear"
    /\ pressed_keys' = {}
    /\ mpc' = "idle"
    /\ UNCHANGED call
    /\ UNCHANGED << envVars, progress, navVars, pureVars, engineVars, is_paused, is_emergency_stopped,
                    keys_down, loopVars >>


(* ---------------------------------------------------------------------- *)
(* DecisionEngine._execution_loop, run by loop thread t                    *)
(* ---------------------------------------------------------------------- *)

\* the loop thread returns; its locals are dropped
Die(t) ==
    /\ pc' = [pc EXCEPT ![t] = "dead"]
    /\ step' = [step EXCEPT ![t] = NoStep]

Goto(t, p) == pc' = [pc EXCEPT ![t] = p]

\* action type of the step the thread fetched
Kind(t) == guide_steps[step[t] + 1]

\* DecisionEngine._wait_for_game and the loop's "if not self._wait_for_game():
\* self.state = ExecutionState.ERROR; return".  One poll: the stop event, then
\* the classified state st; timeout = the 10 s have passed at the while test.
WaitForGame(t) ==
    /\ pc[t] = "wait_game"
    /\ \E st \in GameState, timeout \in BOOLEAN :
         IF stop_event \/ (timeout /\ st \notin {"world", "map"})
         THEN /\ state' = "error"
              /\ Die(t)
         ELSE /\ st \in {"world", "map"}
              /\ Goto(t, "init_tp")
              /\ UNCHANGED << state, step >>
    /\ UNCHANGED << envVars, progress, navVars, pureVars, current_step, stop_event, pause_event,
                    execution_thread, ctrlVars, callVars >>

\* _execution_loop, "Special handling for initial teleport": the capture can
\* raise (captureOk = FALSE), which the loop's except turns into ERROR
InitialTeleport(t) ==
    /\ pc[t] = "init_tp"
    /\ IF current_step = 0 /\ guide_steps # << >> /\ guide_steps[1] = "teleport"
       THEN \E captureOk \in BOOLEAN :
              IF captureOk
              THEN /\ Goto(t, "top")
                   /\ UNCHANGED << state, step >>
              ELSE /\ state' = "error"
                   /\ Die(t)
       ELSE /\ Goto(t, "top")
            /\ UNCHANGED << state, step >>
    /\ UNCHANGED << envVars, progress, navVars, pureVars, current_step, stop_event, pause_event,
                    execution_thread, ctrlVars, callVars >>

\* "while self.current_step < len(self.guide_steps): if self._stop_event.is_set(): break"
LoopTop(t) ==
    /\ pc[t] = "top"
    /\ IF current_step < NumSteps /\ ~stop_event
       THEN Goto(t, "pause_wait")
       ELSE Goto(t, "finish")
    /\ UNCHANGED << envVars, progress, navVars, pureVars, engineVars, ctrlVars, step, callVars >>

\* "self._pause_event.wait()": blocks while the pause event is clear
PauseWait(t) ==
    /\ pc[t] = "pause_wait"
    /\ pause_event
    /\ Goto(t, "fetch")
    /\ UNCHANGED << envVars, progress, navVars, pureVars, engineVars, ctrlVars, step, callVars >>

\* second stop check, then "step = self.guide_steps[self.current_step]" (an
\* IndexError when the cursor has passed the end), self.update_progress() and
\* the dispatch of the step
Fetch(t) ==
    /\ pc[t] = "fetch"
    /\ IF stop_event
       THEN /\ Goto(t, "finish")
            /\ UNCHANGED << state, step, progress >>
       ELSE IF current_step >= NumSteps
       THEN /\ state' = "error"
            /\ Die(t)
            /\ UNCHANGED progress
       ELSE /\ Goto(t, "exec")
            /\ step' = [step EXCEPT ![t] = current_step]
            /\ progress' = IF on_progress THEN ExecutionProgress ELSE progress
            /\ UNCHANGED state
    /\ UNCHANGED << envVars, navVars, pureVars, current_step, stop_event, pause_event,
                    execution_thread, ctrlVars, callVars >>

\* _handle_move -> GameController.move_direction -> hold_key(KEY_FORWARD), its
\* test of the two flags; move_direction ignores hold_key's result
HandleMove(t) ==
    /\ pc[t] = "exec"
    /\ Kind(t) = "move"
    /\ IF Blocked THEN Goto(t, "hold_sleep") ELSE Goto(t, "hold_down")
    /\ UNCHANGED << envVars, progress, navVars, pureVars, engineVars, ctrlVars, step, callVars >>

\* GameController.hold_key: self._input.keyDown(key); self._pressed_keys.add(key);
\* a keyDown that raises makes hold_key return a failure, which move_direction
\* ignores
HoldKeyDown(t) ==
    /\ pc[t] = "hold_down"
    /\ \E ok \in InputOk :
         IF ok
         THEN /\ keys_down' = keys_down \cup {KEY_FORWARD}
              /\ pressed_keys' = pressed_keys \cup {KEY_FORWARD}
         ELSE UNCHANGED << keys_down, pressed_keys >>
    /\ Goto(t, "hold_sleep")
    /\ UNCHANGED << envVars, progress, navVars, pureVars, engineVars, is_paused, is_emergency_stopped,
                    step, callVars >>

\* move_direction after time.sleep(duration): release_key(key) issues keyUp and
\* discards the key (a keyUp that raises is caught by release_key, whose result
\* move_direction ignores); "return ActionResult(True)"
MoveRelease(t) ==
    /\ pc[t] = "hold_sleep"
    /\ \E ok \in InputOk :
         IF ok
         THEN /\ keys_down' = keys_down \ {KEY_FORWARD}
              /\ pressed_keys' = pressed_keys \ {KEY_FORWARD}
         ELSE UNCHANGED << keys_down, pressed_keys >>
    /\ Goto(t, "ret_ok")
    /\ UNCHANGED << envVars, progress, navVars, pureVars, engineVars, is_paused, is_emergency_stopped,
                    step, callVars >>

\* _handle_climb: jump(), then move_forward -> _hold_and_release(KEY_FORWARD),
\* its test of the two flags
HandleClimb(t) ==
    /\ pc[t] = "exec"
    /\ Kind(t) = "climb"
    /\ IF Blocked THEN Goto(t, "ret_fail") ELSE Goto(t, "timed_down")
    /\ UNCHANGED << envVars, progress, navVars, pureVars, engineVars, ctrlVars, step, callVars >>

\* _hold_and_release, "except Exception as e: self._input.keyUp(key); return
\* ActionResult(False, str(e))": the handler's keyUp releases the key and the
\* operation returns a failure, or raises in its turn, and the exception leaves
\* the controller and reaches the loop's "except Exception: self.state = ERROR"
TimedExcept(t) ==
    \E ok \in InputOk :
      IF ok
      THEN /\ keys_down' = keys_down \ {KEY_FORWARD}
           /\ Goto(t, "ret_fail")
           /\ UNCHANGED << state, step >>
      ELSE /\ state' = "error"
           /\ Die(t)
           /\ UNCHANGED keys_down

\* _hold_and_release: self._input.keyDown(key), not entered in _pressed_keys
TimedKeyDown(t) ==
    /\ pc[t] = "timed_down"
    /\ \E ok \in InputOk :
         IF ok
         THEN /\ keys_down' = keys_down \cup {KEY_FORWARD}
              /\ Goto(t, "timed_hold")
              /\ UNCHANGED << state, step >>
         ELSE TimedExcept(t)
    /\ UNCHANGED << envVars, progress, navVars, pureVars, current_step, stop_event, pause_event,
                    execution_thread, is_paused, is_emergency_stopped,
                    pressed_keys, callVars >>

\* _hold_and_release after time.sleep(duration): self._input.keyUp(key)
TimedKeyUp(t) ==
    /\ pc[t] = "timed_hold"
    /\ \E ok \in InputOk :
         IF ok
         THEN /\ keys_down' = keys_down \ {KEY_FORWARD}
              /\ Goto(t, "ret_ok")
              /\ UNCHANGED << state, step >>
         ELSE TimedExcept(t)
    /\ UNCHANGED << envVars, progress, navVars, pureVars, current_step, stop_event, pause_event,
                    execution_thread, is_paused, is_emergency_stopped,
                    pressed_keys, callVars >>

\* _handle_interact -> GameController.interact -> press_key(KEY_INTERACT):
\* the test of the two flags, then self._input.press(key), whose exception
\* press_key turns into a failure
HandleInteract(t) ==
    /\ pc[t] = "exec"
    /\ Kind(t) = "interact"
    /\ \E ok \in InputOk :
         IF Blocked \/ ~ok THEN Goto(t, "ret_fail") ELSE Goto(t, "ret_ok")
    /\ UNCHANGED << envVars, progress, navVars, pureVars, engineVars, ctrlVars, step, callVars >>

\* _handle_teleport: the handler's result depends on what the navigator sees
\* (r = "ok" / "fail"); a screen capture that raises (r = "raise") reaches
\* the loop's "except Exception: self.state = ERROR"
HandleTeleport(t) ==
    /\ pc[t] = "exec"
    /\ Kind(t) = "teleport"
    /\ \E r \in {"ok", "fail", "raise"} :
         IF r = "raise"
         THEN /\ state' = "error"
              /\ Die(t)
         ELSE /\ Goto(t, IF r = "ok" THEN "ret_ok" ELSE "ret_fail")
              /\ UNCHANGED << state, step >>
    /\ UNCHANGED << envVars, progress, navVars, pureVars, current_step, stop_event, pause_event,
                    execution_thread, ctrlVars, callVars >>

\* "if success: self.current_step += 1", then time.sleep(0.5).  The read and
\* the write of the += are taken as one step: with the other writers of the
\* cursor (another loop thread, reset) in between, the write would only land
\* on a lower value than the one modelled.
StepSucceeded(t) ==
    /\ pc[t] = "ret_ok"
    /\ current_step' = current_step + 1
    /\ Goto(t, "top")
    /\ UNCHANGED step
    /\ UNCHANGED << envVars, progress, navVars, pureVars, state, stop_event, pause_event,
                    execution_thread, ctrlVars, callVars >>

\* DecisionEngine._ai_recovery: st is the classified state ("capture_error":
\* the capture raised, caught by the routine's except), aiOk the result of
\* _ai_decide_action
AiRecovery(st, aiOk) ==
    IF st = "capture_error" THEN FALSE
    ELSE IF st \in {"dialog", "map", "loading"} THEN TRUE
    ELSE aiOk

\* the cursor after a failed step: "if not self._ai_recovery(step): ...
\* self.current_step += 1"
AfterRecovery(recovered) ==
    IF recovered THEN current_step ELSE current_step + 1

\* a recovery routine without its try/except: a capture that raises inside it
\* would reach the loop's "except Exception: self.state = ERROR"
RecoveryUncaught(t) ==
    /\ pc[t] = "ret_fail"
    /\ \E st \in GameState \cup {"capture_error"}, aiOk \in BOOLEAN :
         IF st = "capture_error"
         THEN /\ state' = "error"
              /\ Die(t)
              /\ UNCHANGED current_step
         ELSE /\ current_step' = AfterRecovery(AiRecovery(st, aiOk))
              /\ Goto(t, "top")
              /\ UNCHANGED << state, step >>
    /\ UNCHANGED << envVars, progress, navVars, pureVars, stop_event, pause_event,
                    execution_thread, ctrlVars, callVars >>

\* "else: if not self._ai_recovery(step): self.current_step += 1", then
\* time.sleep(0.5)
Recovery(t) ==
    /\ pc[t] = "ret_fail"
    /\ \E st \in GameState \cup {"capture_error"}, aiOk \in BOOLEAN :
         current_step' = AfterRecovery(AiRecovery(st, aiOk))
    /\ Goto(t, "top")
    /\ UNCHANGED step
    /\ UNCHANGED << envVars, progress, navVars, pureVars, state, stop_event, pause_event,
                    execution_thread, ctrlVars, callVars >>

\* after the while loop: "if self.current_step >= len(self.guide_steps):
\* self.state = ExecutionState.COMPLETED"; the thread returns
Finish(t) ==
    /\ pc[t] = "finish"
    /\ state' = IF current_step >= NumSteps THEN "completed" ELSE state
    /\ Die(t)
    /\ UNCHANGED << envVars, progress, navVars, pureVars, current_step, stop_event, pause_event,
                    execution_thread, ctrlVars, callVars >>

LoopStep(t) ==
    \/ WaitForGame(t)
    \/ InitialTeleport(t)
    \/ LoopTop(t)
    \/ PauseWait(t)
    \/ Fetch(t)
    \/ HandleMove(t)
    \/ HoldKeyDown(t)
    \/ MoveRelease(t)
    \/ HandleClimb(t)
    \/ TimedKeyDown(t)
    \/ TimedKeyUp(t)
    \/ HandleInteract(t)
    \/ HandleTeleport(t)
    \/ StepSucceeded(t)
    \/ Recovery(t)
    \/ Finish(t)

Control ==
    \/ Start
    \/ PauseCall
    \/ PauseSet
    \/ PauseClear
    \/ ResumeCall
    \/ ResumeSet
    \/ StopCall
    \/ ResetCall
    \/ StopState
    \/ StopJoin
    \/ StopJoinTimeout
    \/ ResetSet
    \/ ResetClear

Next == Control \/ \E t \in Loops : LoopStep(t)

Spec == Init /\ [][Next]_vars


(* ---------------------------------------------------------------------- *)
(* A run that nobody pauses or stops, with the loop thread scheduled       *)
(* ---------------------------------------------------------------------- *)

RunNext == Start \/ \E t \in Loops : LoopStep(t)

\* the thread scheduler keeps running a loop thread that can take a step
LiveSpec == Constructed(RunGuides, TRUE, FALSE) /\ [][RunNext]_vars /\ \A t \in Loops : WF_vars(LoopStep(t))

(* ---------------------------------------------------------------------- *)
(* The engine on an input library that can raise                           *)
(* ---------------------------------------------------------------------- *)

FaultSpec == Constructed(Guides, FALSE, TRUE) /\ [][Next]_vars

(* ---------------------------------------------------------------------- *)
(* The engine with a caller that also loads guides                         *)
(* ---------------------------------------------------------------------- *)

\* DecisionEngine.load_guide / analyze_video, first assignment:
\* "self.guide_steps = result.steps", whatever the state.  The call is made
\* while no loop thread is about to dispatch the step it fetched (the loop
\* holds that step object, the model its index).
LoadGuideSteps ==
    /\ mpc = "idle"
    /\ \A t \in Loops : pc[t] # "exec"
    /\ guide_steps' \in Guides
    /\ call' = "load_guide"
    /\ mpc' = "load_cursor"
    /\ UNCHANGED << on_progress, faults, progress, navVars, pureVars, engineVars,
                    ctrlVars, loopVars >>

\* DecisionEngine.load_guide / analyze_video, second assignment:
\* "self.current_step = 0"
LoadGuideCursor ==
    /\ mpc = "load_cursor"
    /\ current_step' = 0
    /\ mpc' = "idle"
    /\ UNCHANGED << envVars, progress, navVars, pureVars, state, stop_event,
                    pause_event, execution_thread, ctrlVars, loopVars, call >>

LoadNext ==
    \/ Start
    \/ PauseCall
    \/ PauseSet
    \/ PauseClear
    \/ ResumeCall
    \/ ResumeSet
    \/ LoadGuideSteps
    \/ LoadGuideCursor
    \/ \E t \in Loops : LoopStep(t)

LoadSpec == Init /\ [][LoadNext]_vars

(* ---------------------------------------------------------------------- *)
(* Navigator: approach_and_interact and teleport_to_location, each called  *)
(* once on a navigator at rest                                             *)
(* ---------------------------------------------------------------------- *)

MaxAttempts == 4

\* the methods GameController defines
ControllerOps ==
    {"is_available", "move_mouse", "move_mouse_relative", "click", "click_at",
     "drag", "rotate_camera", "press_key", "hold_key", "release_key",
     "release_all_keys", "type_text", "move_forward", "move_backward",
     "move_left", "move_right", "move_direction", "jump", "interact", "attack",
     "charged_attack", "elemental_skill", "elemental_burst", "sprint_start",
     "sprint_stop", "open_map", "open_inventory", "escape", "switch_character",
     "pause", "resume", "emergency_stop", "reset", "get_mouse_position"}

\* the engine and the controller, which a Navigator operation run on its own
\* leaves alone
coreVars == << envVars, engineVars, ctrlVars, loopVars, callVars, progress >>

\* the operation ends: it returns r ("success" / "failure": the success flag
\* of its ActionResult) or an exception leaves it (r = "raised")
NavEnd(r) ==
    /\ result' = r
    /\ nav_pc' = "done"

Record(e) == events' = Append(events, e)

\* a call of approach_and_interact(target_x, target_y, max_attempts = n)
ApproachCall ==
    /\ nav_op = "none"
    /\ \E n \in 0..MaxAttempts : max_attempts' = n
    /\ nav_op' = "approach_and_interact"
    /\ nav_pc' = "loop"
    /\ UNCHANGED << loading_started, attempt, events, result, coreVars, pureVars >>

\* a loop head that admits one iteration more than range(max_attempts)
ApproachLoopOneMore ==
    /\ nav_op = "approach_and_interact"
    /\ nav_pc = "loop"
    /\ IF attempt <= max_attempts
       THEN nav_pc' = "sample" /\ UNCHANGED result
       ELSE NavEnd("failure")
    /\ UNCHANGED << loading_started, nav_op, max_attempts, attempt, events, coreVars, pureVars >>

\* "for attempt in range(max_attempts):" and, past the loop,
\* "return ActionResult(False, ...)"; attempt counts the iterations completed
ApproachLoop ==
    /\ nav_op = "approach_and_interact"
    /\ nav_pc = "loop"
    /\ IF attempt < max_attempts
       THEN nav_pc' = "sample" /\ UNCHANGED result
       ELSE NavEnd("failure")
    /\ UNCHANGED << loading_started, nav_op, max_attempts, attempt, events, coreVars, pureVars >>

\* "screen = self.get_current_screen(); prompt = self.detector.
\* detect_interaction_prompt(screen); if prompt:".  The capture can raise.
ApproachSample ==
    /\ nav_op = "approach_and_interact"
    /\ nav_pc = "sample"
    /\ \E seen \in {"prompt", "no_prompt", "capture_error"} :
         IF seen = "capture_error"
         THEN NavEnd("raised") /\ UNCHANGED events
         ELSE /\ Record("sample")
              /\ nav_pc' = IF seen = "prompt" THEN "interact" ELSE "move"
              /\ UNCHANGED result
    /\ UNCHANGED << loading_started, nav_op, max_attempts, attempt, coreVars, pureVars >>

\* "result = self.controller.interact(); ...; return result"
ApproachInteract ==
    /\ nav_op = "approach_and_interact"
    /\ nav_pc = "interact"
    /\ Record("interact")
    /\ \E ok \in BOOLEAN : NavEnd(IF ok THEN "success" ELSE "failure")
    /\ UNCHANGED << loading_started, nav_op, max_attempts, attempt, coreVars, pureVars >>

\* "self.move_towards_screen_point(target_x, target_y, duration=0.5)", which
\* captures the screen again (and can raise), then the next iteration
ApproachMove ==
    /\ nav_op = "approach_and_interact"
    /\ nav_pc = "move"
    /\ \E captureOk \in BOOLEAN :
         IF captureOk
         THEN /\ Record("move")
              /\ attempt' = attempt + 1
              /\ nav_pc' = "loop"
              /\ UNCHANGED result
         ELSE NavEnd("raised") /\ UNCHANGED << events, attempt >>
    /\ UNCHANGED << loading_started, nav_op, max_attempts, coreVars, pureVars >>

\* a call of teleport_to_location(location_name, max_retries = n)
TeleportCall ==
    /\ nav_op = "none"
    /\ \E n \in 0..MaxAttempts : max_attempts' = n
    /\ nav_op' = "teleport_to_location"
    /\ nav_pc' = "ensure_map"
    /\ UNCHANGED << loading_started, attempt, events, result, coreVars, pureVars >>

\* "if self.check_game_state() != GameState.MAP: if not self.
\* open_map_and_wait(): return ActionResult(False, ...)"; check_game_state
\* captures the screen and can raise
TeleportEnsureMap ==
    /\ nav_op = "teleport_to_location"
    /\ nav_pc = "ensure_map"
    /\ \E st \in GameState \cup {"capture_error"}, opened \in BOOLEAN :
         IF st = "capture_error" THEN NavEnd("raised")
         ELSE IF st = "map" \/ opened THEN nav_pc' = "loop" /\ UNCHANGED result
         ELSE NavEnd("failure")
    /\ UNCHANGED << loading_started, nav_op, max_attempts, attempt, events, coreVars, pureVars >>

\* "for attempt in range(max_retries):" and, past the loop,
\* "return ActionResult(False, ...)"
TeleportLoop ==
    /\ nav_op = "teleport_to_location"
    /\ nav_pc = "loop"
    /\ IF attempt < max_attempts
       THEN nav_pc' = "try" /\ UNCHANGED result
       ELSE NavEnd("failure")
    /\ UNCHANGED << loading_started, nav_op, max_attempts, attempt, events, coreVars, pureVars >>

\* one attempt: the capture, ai_vision.analyze_map_for_teleport (either can
\* raise) and, with the target found, teleport_to_waypoint, whose result tp
\* ends the call when it is a success
TeleportAttempt ==
    /\ nav_op = "teleport_to_location"
    /\ nav_pc = "try"
    /\ \E seen \in {"capture_error", "ai_error", "not_found", "found"},
          tp \in {"success", "failure", "capture_error"} :
         IF seen \in {"capture_error", "ai_error"}
              \/ (seen = "found" /\ tp = "capture_error")
         THEN NavEnd("raised") /\ UNCHANGED events
         ELSE /\ Record("attempt")
              /\ IF seen = "found" /\ tp = "success"
                 THEN NavEnd("success")
                 ELSE nav_pc' = "between" /\ UNCHANGED result
    /\ UNCHANGED << loading_started, nav_op, max_attempts, attempt, coreVars, pureVars >>

\* "if attempt < max_retries - 1: self._try_adjust_map_view(location_name)",
\* else the next iteration
TeleportBetween ==
    /\ nav_op = "teleport_to_location"
    /\ nav_pc = "between"
    /\ IF attempt < max_attempts - 1
       THEN nav_pc' = "adjust" /\ UNCHANGED attempt
       ELSE nav_pc' = "loop" /\ attempt' = attempt + 1
    /\ UNCHANGED << loading_started, nav_op, max_attempts, events, result, coreVars, pureVars >>

\* Navigator._try_adjust_map_view: the capture, then "self.controller.
\* scroll(-3, ...)": an AttributeError unless GameController has the method
TryAdjustMapView ==
    /\ nav_op = "teleport_to_location"
    /\ nav_pc = "adjust"
    /\ \E captureOk \in BOOLEAN :
         IF captureOk /\ "scroll" \in ControllerOps
         THEN /\ Record("zoom_out")
              /\ attempt' = attempt + 1
              /\ nav_pc' = "loop"
              /\ UNCHANGED result
         ELSE NavEnd("raised") /\ UNCHANGED << events, attempt >>
    /\ UNCHANGED << loading_started, nav_op, max_attempts, coreVars, pureVars >>

MaxPolls == 3

\* "while time.time() - start_time < timeout:" of a polling loop: the time is
\* up (expired), at the latest after MaxPolls polls; attempt counts the polls
TimedOut(expired) == expired \/ attempt >= MaxPolls

\* a call of teleport_to_waypoint(waypoint_screen_x, waypoint_screen_y)
WaypointCall ==
    /\ nav_op = "none"
    /\ nav_op' = "teleport_to_waypoint"
    /\ nav_pc' = "click"
    /\ UNCHANGED << loading_started, max_attempts, attempt, events, result,
                    coreVars, pureVars >>

\* teleport_to_waypoint before the wait: click_at(waypoint), the capture, the
\* teleport button found by template, by ai_vision.find_click_target or taken
\* at the estimated position, click_at(button).  The capture and the AI call
\* can raise.
WaypointClick ==
    /\ nav_op = "teleport_to_waypoint"
    /\ nav_pc = "click"
    /\ \E button \in {"template", "ai", "estimated", "capture_error", "ai_error"} :
         IF button \in {"capture_error", "ai_error"}
         THEN NavEnd("raised") /\ UNCHANGED events
         ELSE /\ events' = events \o << "click", "click" >>
              /\ nav_pc' = "wait"
              /\ UNCHANGED result
    /\ UNCHANGED << loading_started, nav_op, max_attempts, attempt, coreVars, pureVars >>

\* _wait_for_teleport_complete: the while test and, past the loop,
\* "return ActionResult(False, "Teleport timeout")"
WaypointWait ==
    /\ nav_op = "teleport_to_waypoint"
    /\ nav_pc = "wait"
    /\ \E expired \in BOOLEAN :
         IF TimedOut(expired)
         THEN NavEnd("failure")
         ELSE nav_pc' = "poll" /\ UNCHANGED result
    /\ UNCHANGED << loading_started, nav_op, max_attempts, attempt, events,
                    coreVars, pureVars >>

\* a poll that takes World for the end of the teleport without having seen
\* Loading
WaypointPollAnyWorld ==
    /\ nav_op = "teleport_to_waypoint"
    /\ nav_pc = "poll"
    /\ \E st \in GameState \cup {"capture_error"} :
         IF st = "capture_error"
         THEN NavEnd("raised") /\ UNCHANGED << events, attempt, loading_started >>
         ELSE /\ Record(st)
              /\ attempt' = attempt + 1
              /\ loading_started' = (loading_started \/ st = "loading")
              /\ IF st = "world"
                 THEN NavEnd("success")
                 ELSE nav_pc' = "wait" /\ UNCHANGED result
    /\ UNCHANGED << nav_op, max_attempts, coreVars, pureVars >>

\* _wait_for_teleport_complete, one poll: "state = self.check_game_state()"
\* (the capture can raise); LOADING sets loading_started; WORLD returns
\* success "if loading_started"; anything else sleeps and polls again
WaypointPoll ==
    /\ nav_op = "teleport_to_waypoint"
    /\ nav_pc = "poll"
    /\ \E st \in GameState \cup {"capture_error"} :
         IF st = "capture_error"
         THEN NavEnd("raised") /\ UNCHANGED << events, attempt, loading_started >>
         ELSE /\ Record(st)
              /\ attempt' = attempt + 1
              /\ loading_started' = (loading_started \/ st = "loading")
              /\ IF st = "world" /\ loading_started
                 THEN NavEnd("success")
                 ELSE nav_pc' = "wait" /\ UNCHANGED result
    /\ UNCHANGED << nav_op, max_attempts, coreVars, pureVars >>

DialogOps == {"skip_dialog", "wait_for_dialog_end"}

\* a call of skip_dialog(timeout) or of wait_for_dialog_end(timeout)
DialogCall ==
    /\ nav_op = "none"
    /\ nav_op' \in DialogOps
    /\ nav_pc' = "wait"
    /\ UNCHANGED << loading_started, max_attempts, attempt, events, result,
                    coreVars, pureVars >>

\* skip_dialog / wait_for_dialog_end: the while test and, past the loop,
\* "return ActionResult(False, "Dialog timeout")" / "return False"
DialogWait ==
    /\ nav_op \in DialogOps
    /\ nav_pc = "wait"
    /\ \E expired \in BOOLEAN :
         IF TimedOut(expired)
         THEN NavEnd("failure")
         ELSE nav_pc' = "poll" /\ UNCHANGED result
    /\ UNCHANGED << loading_started, nav_op, max_attempts, attempt, events,
                    coreVars, pureVars >>

\* what a poll that shows Dialog does: skip_dialog clicks, wait_for_dialog_end
\* only sleeps
OnDialog(op) == IF op = "skip_dialog" THEN << "dialog", "click" >> ELSE << "dialog" >>

\* a poll that never clicks
DialogPollNoClick ==
    /\ nav_op \in DialogOps
    /\ nav_pc = "poll"
    /\ \E st \in GameState \cup {"capture_error"} :
         IF st = "capture_error"
         THEN NavEnd("raised") /\ UNCHANGED << events, attempt >>
         ELSE IF st # "dialog"
         THEN Record(st) /\ NavEnd("success") /\ UNCHANGED attempt
         ELSE /\ Record("dialog")
              /\ attempt' = attempt + 1
              /\ nav_pc' = "wait"
              /\ UNCHANGED result
    /\ UNCHANGED << loading_started, nav_op, max_attempts, coreVars, pureVars >>

\* skip_dialog / wait_for_dialog_end, one poll: "state = self.
\* check_game_state()" (the capture can raise); "if state != GameState.DIALOG:
\* return" success / True; else the click (skip_dialog only) and the sleep
DialogPoll ==
    /\ nav_op \in DialogOps
    /\ nav_pc = "poll"
    /\ \E st \in GameState \cup {"capture_error"} :
         IF st = "capture_error"
         THEN NavEnd("raised") /\ UNCHANGED << events, attempt >>
         ELSE IF st # "dialog"
         THEN Record(st) /\ NavEnd("success") /\ UNCHANGED attempt
         ELSE /\ events' = events \o OnDialog(nav_op)
              /\ attempt' = attempt + 1
              /\ nav_pc' = "wait"
              /\ UNCHANGED result
    /\ UNCHANGED << loading_started, nav_op, max_attempts, coreVars, pureVars >>

NavNext ==
    \/ WaypointCall
    \/ WaypointClick
    \/ WaypointWait
    \/ WaypointPoll
    \/ DialogCall
    \/ DialogWait
    \/ DialogPoll
    \/ ApproachCall
    \/ ApproachLoop
    \/ ApproachSample
    \/ ApproachInteract
    \/ ApproachMove
    \/ TeleportCall
    \/ TeleportEnsureMap
    \/ TeleportLoop
    \/ TeleportAttempt
    \/ TeleportBetween
    \/ TryAdjustMapView

NavSpec == InitOn({<< >>}) /\ [][NavNext]_vars

(* ---------------------------------------------------------------------- *)
(* Navigator.turn_to_direction                                             *)
(* ---------------------------------------------------------------------- *)

\* directions are whole degrees from 0 to MaxAngle
MaxAngle == 360

Directions == 0..MaxAngle

\* "Full 360 degree turn is approximately 1500 pixels"
PIXELS_PER_TURN == 1500

\* a function called with arguments in args
Applied(f, args) ==
    /\ Built({<< >>}, FALSE, FALSE)
    /\ fn = f
    /\ arg \in args
    /\ ret = Pending

\* "while diff > 180: diff -= 360" then "while diff < -180: diff += 360"
RECURSIVE Normalize(_)
Normalize(diff) ==
    IF diff > 180 THEN Normalize(diff - 360)
    ELSE IF diff < -180 THEN Normalize(diff + 360)
    ELSE diff

\* a division that rounds down
Floor(n, d) == n \div d

\* int(n / d): the quotient without its fraction, rounded toward zero
Trunc(n, d) == IF n >= 0 THEN n \div d ELSE -((-n) \div d)

\* turn_to_direction(target_direction, current_direction): the normalised
\* difference, the pixels, one controller.rotate_camera(pixels, 0), that is
\* move_mouse_relative(pixels, 0)
TurnToDirection ==
    /\ fn = "turn_to_direction"
    /\ ret = Pending
    /\ LET diff == Normalize(arg[1] - arg[2])
           pixels == Trunc(diff * PIXELS_PER_TURN, 360)
       IN  ret' = [status |-> "returned", diff |-> diff,
                   moves |-> << << pixels, 0 >> >>]
    /\ UNCHANGED << coreVars, navVars, fn, arg >>

TurnSpec ==
    Applied("turn_to_direction", Directions \X Directions) /\ [][TurnToDirection]_vars

(* ---------------------------------------------------------------------- *)
(* GameDetector.detect_game_state (src/screen/detector.py)                 *)
(* ---------------------------------------------------------------------- *)

\* (x, y, w, h) at 1920x1080
MINIMAP_REGION == << 55, 45, 210, 200 >>
DIALOG_REGION == << 300, 650, 1320, 150 >>

\* the resolutions a detector is constructed with (scale 1 and scale 1/2)
Resolutions == {<< 1920, 1080 >>, << 960, 540 >>}

\* (width, height) of the frames: full frames and frames around the sizes at
\* which the two regions stop fitting
FrameSizes ==
    {<< 1920, 1080 >>, << 960, 540 >>, << 640, 480 >>, << 1920, 650 >>,
     << 300, 1080 >>, << 301, 651 >>, << 300, 650 >>, << 265, 245 >>,
     << 264, 244 >>, << 151, 326 >>, << 150, 325 >>, << 132, 122 >>,
     << 131, 121 >>}

\* what the heuristics measure on a frame, at and next to their thresholds:
\* mean gray level of the frame, mean gray level of the dialog band, percent
\* of blue pixels in the middle third, standard deviation of the minimap
Frames ==
    [size : FrameSizes, mean : {29, 30, 40, 41, 69, 70},
     dialog_mean : {20, 21, 79, 80}, blue : {15, 16}, minimap_std : {30, 31}]

\* _scale_region: int(v * scale) with scale = resolution / 1920 or / 1080
ScaleRegion(region, res) ==
    << (region[1] * res[1]) \div 1920, (region[2] * res[2]) \div 1080,
       (region[3] * res[1]) \div 1920, (region[4] * res[2]) \div 1080 >>

\* screen[y:y+h, x:x+w] has no pixel: the slice is clipped to the frame
EmptyCrop(f, r) == f.size[1] <= r[1] \/ f.size[2] <= r[2]

IsLoadingScreen(f) == f.mean < 30

\* _has_dialog_ui crops without a test; cv2.cvtColor raises on an empty crop
DialogUiRaises(f, res) == EmptyCrop(f, ScaleRegion(DIALOG_REGION, res))

HasDialogUi(f) == 20 < f.dialog_mean /\ f.dialog_mean < 80

IsMapOpen(f) == f.blue > 15

IsPauseMenu(f) == 40 < f.mean /\ f.mean < 70

IsMainMenu(f) == FALSE

\* "if y + h > screen.shape[0] or x + w > screen.shape[1]: return False"
HasMinimap(f, res) ==
    LET r == ScaleRegion(MINIMAP_REGION, res)
    IN  /\ ~(r[2] + r[4] > f.size[2] \/ r[1] + r[3] > f.size[1])
        /\ f.minimap_std > 30

Value(v) == [status |-> "returned", value |-> v]

Error(e) == [status |-> "raised", error |-> e]

\* a classifier that looks for the map before the dialog
DetectMapFirst(f, res) ==
    IF IsLoadingScreen(f) THEN Value("loading")
    ELSE IF IsMapOpen(f) THEN Value("map")
    ELSE IF DialogUiRaises(f, res) THEN Error("cv2.error")
    ELSE IF HasDialogUi(f) THEN Value("dialog")
    ELSE IF IsPauseMenu(f) THEN Value("pause_menu")
    ELSE IF IsMainMenu(f) THEN Value("main_menu")
    ELSE IF HasMinimap(f, res) THEN Value("world")
    ELSE Value("unknown")

\* detect_game_state(screen) of a detector constructed with resolution res
DetectGameState(f, res) ==
    IF IsLoadingScreen(f) THEN Value("loading")
    ELSE IF DialogUiRaises(f, res) THEN Error("cv2.error")
    ELSE IF HasDialogUi(f) THEN Value("dialog")
    ELSE IF IsMapOpen(f) THEN Value("map")
    ELSE IF IsPauseMenu(f) THEN Value("pause_menu")
    ELSE IF IsMainMenu(f) THEN Value("main_menu")
    ELSE IF HasMinimap(f, res) THEN Value("world")
    ELSE Value("unknown")

\* GameDetector(resolution).detect_game_state(screen); arg = << screen,
\* resolution >>
Detect ==
    /\ fn = "detect_game_state"
    /\ ret = Pending
    /\ ret' = DetectGameState(arg[1], arg[2])
    /\ UNCHANGED << coreVars, navVars, fn, arg >>

DetectSpec ==
    Applied("detect_game_state", Frames \X Resolutions) /\ [][Detect]_vars

(* ---------------------------------------------------------------------- *)
(* TemplateMatcher (src/screen/template_matcher.py)                        *)
(* ---------------------------------------------------------------------- *)

\* longest candidate list given to _non_max_suppression on its own
MaxCands == 3

\* most places at which matchTemplate responds in one search
MaxHits == 3

\* most results asked for
MaxResults == 2

\* "scales = [0.5, 0.75, 1.0, 1.25, 1.5]", in percent
SCALES == << 50, 75, 100, 125, 150 >>

\* "if new_w < 10 or new_h < 10: continue"
MIN_SIZE == 10

\* confidences and thresholds, in percent
Confidences == {80, 90}

\* top-left corners at which a response is looked at
Corners == << << 0, 0 >>, << 4, 0 >> >>

\* (width, height) of the frame searched
FRAME == << 24, 24 >>

\* the templates the matcher has loaded, with their (width, height); the
\* file of "teleport_button" was not there
TemplateNames == {"waypoint", "statue", "domain", "chest_common"}

Templates ==
    [n \in TemplateNames |->
        CASE n = "waypoint" -> << 16, 16 >>
          [] n = "statue" -> << 16, 8 >>
          [] n = "domain" -> << 40, 16 >>
          [] n = "chest_common" -> << 50, 50 >>]

\* MatchResult (template_name left out: one search has one name)
MatchResult(conf, loc, size) ==
    [confidence |-> conf, location |-> loc,
     center |-> << loc[1] + size[1] \div 2, loc[2] + size[2] \div 2 >>,
     size |-> size]

Min(a, b) == IF a < b THEN a ELSE b

Max(a, b) == IF a > b THEN a ELSE b

\* _calculate_overlap: intersection over union, as the fraction
\* << intersection, union >>; << 0, 1 >> is 0.0
CalculateOverlap(m1, m2) ==
    LET x1 == m1.location[1]
        y1 == m1.location[2]
        w1 == m1.size[1]
        h1 == m1.size[2]
        x2 == m2.location[1]
        y2 == m2.location[2]
        w2 == m2.size[1]
        h2 == m2.size[2]
        xi == Max(x1, x2)
        yi == Max(y1, y2)
        wi == Min(x1 + w1, x2 + w2) - xi
        hi == Min(y1 + h1, y2 + h2) - yi
        union == w1 * h1 + w2 * h2 - wi * hi
    IN  IF wi <= 0 \/ hi <= 0 THEN << 0, 1 >>
        ELSE IF union > 0 THEN << wi * hi, union >>
        ELSE << 0, 1 >>

\* "overlap > overlap_threshold" with overlap_threshold = 0.5
OverThreshold(overlap) == 2 * overlap[1] > overlap[2]

\* m put before the first element of the sorted list that is not better
InsertBeforeEqual(m, sorted) ==
    LET n == Cardinality({i \in DOMAIN sorted : sorted[i].confidence > m.confidence})
    IN  SubSeq(sorted, 1, n) \o << m >> \o SubSeq(sorted, n + 1, Len(sorted))

\* m put into a list sorted by descending confidence, behind the elements
\* that are as good: the sort is stable
Insert(m, sorted) ==
    LET n == Cardinality({i \in DOMAIN sorted : sorted[i].confidence >= m.confidence})
    IN  SubSeq(sorted, 1, n) \o << m >> \o SubSeq(sorted, n + 1, Len(sorted))

\* sorted(matches, key=lambda x: x.confidence, reverse=True)
RECURSIVE SortByConfidence(_)
SortByConfidence(matches) ==
    IF matches = << >> THEN << >>
    ELSE Insert(matches[Len(matches)],
                SortByConfidence(SubSeq(matches, 1, Len(matches) - 1)))

\* a loop that drops a match overlapping any better candidate, kept or not
RECURSIVE SuppressAgainstAll(_, _, _)
SuppressAgainstAll(sorted, i, keep) ==
    IF i > Len(sorted) THEN keep
    ELSE LET should_keep ==
                 \A k \in 1..(i - 1) :
                    ~OverThreshold(CalculateOverlap(sorted[i], sorted[k]))
         IN  SuppressAgainstAll(sorted, i + 1,
                      IF should_keep THEN Append(keep, sorted[i]) ELSE keep)

\* the for loop of _non_max_suppression from element i on
RECURSIVE Suppress(_, _, _)
Suppress(sorted, i, keep) ==
    IF i > Len(sorted) THEN keep
    ELSE LET should_keep ==
                 \A k \in DOMAIN keep :
                    ~OverThreshold(CalculateOverlap(sorted[i], keep[k]))
         IN  Suppress(sorted, i + 1,
                      IF should_keep THEN Append(keep, sorted[i]) ELSE keep)

\* every candidate kept
KeepAll(matches) == SortByConfidence(matches)

\* _non_max_suppression(matches, overlap_threshold=0.5)
NonMaxSuppression(matches) ==
    IF matches = << >> THEN << >>
    ELSE Suppress(SortByConfidence(matches), 1, << >>)

\* the candidate lists: up to MaxCands matches of two sizes at two places
CandidatePool ==
    {MatchResult(c, Corners[k], sz) :
        c \in Confidences, k \in DOMAIN Corners, sz \in {<< 12, 12 >>, << 16, 16 >>}}

CandidateLists == UNION {[1..n -> CandidatePool] : n \in 0..MaxCands}

\* a call of _non_max_suppression(arg)
Nms ==
    /\ fn = "_non_max_suppression"
    /\ ret = Pending
    /\ ret' = Value(NonMaxSuppression(arg))
    /\ UNCHANGED << coreVars, navVars, fn, arg >>

NmsSpec == Applied("_non_max_suppression", CandidateLists) /\ [][Nms]_vars

\* "new_w = int(w * scale)", "new_h = int(h * scale)" for the k-th scale
ScaledSize(size, k) ==
    << (size[1] * SCALES[k]) \div 100, (size[2] * SCALES[k]) \div 100 >>

\* a scale tried however small the resized template is
ScaleTriedHoweverSmall(size, k, frame) ==
    LET new == ScaledSize(size, k)
    IN  ~(new[1] > frame[1] \/ new[2] > frame[2])

\* the k-th scale is not skipped by one of the two "continue"
ScaleTried(size, k, frame) ==
    LET new == ScaledSize(size, k)
    IN  /\ ~(new[1] < MIN_SIZE \/ new[2] < MIN_SIZE)
        /\ ~(new[1] > frame[1] \/ new[2] > frame[2])

\* (scale, corner) pairs in the order the search meets them: scale by scale,
\* and within one scale in the order of np.where
Cells == (DOMAIN SCALES) \X (DOMAIN Corners)

ScanOrder ==
    [i \in 1..(Len(SCALES) * Len(Corners)) |->
        << ((i - 1) \div Len(Corners)) + 1, ((i - 1) % Len(Corners)) + 1 >>]

\* what cv2.matchTemplate answers: a confidence at up to MaxHits cells
Responses ==
    UNION {[c -> Confidences] : c \in {d \in SUBSET Cells : Cardinality(d) <= MaxHits}}

\* the arguments of find_template (the screen is FRAME with its responses)
Searches ==
    [name : TemplateNames \cup {"teleport_button"}, response : Responses,
     threshold : Confidences, max_results : 0..MaxResults]

\* "best_matches[:max_results]"
Take(matches, n) == SubSeq(matches, 1, Min(n, Len(matches)))

\* _match_template: the candidates of every scale tried, suppression, the
\* sort and the cut
MatchTemplate(size, response, threshold, max_results) ==
    LET Hit(c) ==
            /\ c \in DOMAIN response
            /\ ScaleTried(size, c[1], FRAME)
            /\ Corners[c[2]][1] + ScaledSize(size, c[1])[1] <= FRAME[1]
            /\ Corners[c[2]][2] + ScaledSize(size, c[1])[2] <= FRAME[2]
            /\ response[c] >= threshold
        hits == SelectSeq(ScanOrder, Hit)
        best_matches ==
            IF hits = << >> THEN << >>
            ELSE [i \in 1..Len(hits) |->
                    MatchResult(response[hits[i]], Corners[hits[i][2]],
                                ScaledSize(size, hits[i][1]))]
    IN  Take(SortByConfidence(NonMaxSuppression(best_matches)), max_results)

\* find_template(screen, template_name, threshold, max_results)
FindTemplate(a) ==
    IF a.name \notin DOMAIN Templates THEN << >>
    ELSE MatchTemplate(Templates[a.name], a.response, a.threshold, a.max_results)

\* a call of find_template
Find ==
    /\ fn = "find_template"
    /\ ret = Pending
    /\ ret' = Value(FindTemplate(arg))
    /\ UNCHANGED << coreVars, navVars, fn, arg >>

MatchSpec == Applied("find_template", Searches) /\ [][Find]_vars

(* ---------------------------------------------------------------------- *)
(* DecisionEngine._ai_recovery, branch by branch                           *)
(* ---------------------------------------------------------------------- *)

\* what a recovery meets: the classified state (or a capture that raises),
\* how skip_dialog and close_map end if called, what _ai_decide_action returns
Failures ==
    [st : GameState \cup {"capture_error"},
     skip : {"success", "failure", "raised"},
     close : {"closed", "open", "raised"},
     ai : BOOLEAN]

\* a recovery in which an open map is closed and the AI fallback runs as well
AiRecoveryMapFallsThrough(a) ==
    IF a.st = "capture_error" THEN [value |-> FALSE, ran |-> << >>]
    ELSE IF a.st = "dialog"
    THEN [value |-> a.skip # "raised", ran |-> << "skip_dialog" >>]
    ELSE IF a.st = "map"
    THEN [value |-> a.close # "raised" /\ a.ai,
          ran |-> << "close_map", "_ai_decide_action" >>]
    ELSE IF a.st = "loading" THEN [value |-> TRUE, ran |-> << "sleep" >>]
    ELSE [value |-> a.ai, ran |-> << "_ai_decide_action" >>]

\* _ai_recovery(step): the value returned and the calls made after the
\* classification; an exception of the capture, of skip_dialog or of
\* close_map is caught by "except Exception: return False"
AiRecoveryRun(a) ==
    IF a.st = "capture_error" THEN [value |-> FALSE, ran |-> << >>]
    ELSE IF a.st = "dialog"
    THEN [value |-> a.skip # "raised", ran |-> << "skip_dialog" >>]
    ELSE IF a.st = "map"
    THEN [value |-> a.close # "raised", ran |-> << "close_map" >>]
    ELSE IF a.st = "loading" THEN [value |-> TRUE, ran |-> << "sleep" >>]
    ELSE [value |-> a.ai, ran |-> << "_ai_decide_action" >>]

\* a call of _ai_recovery
Recover ==
    /\ fn = "_ai_recovery"
    /\ ret = Pending
    /\ ret' = [status |-> "returned", value |-> AiRecoveryRun(arg).value,
               ran |-> AiRecoveryRun(arg).ran]
    /\ UNCHANGED << coreVars, navVars, fn, arg >>

RecoverySpec == Applied("_ai_recovery", Failures) /\ [][Recover]_vars

(* ---------------------------------------------------------------------- *)
(* DecisionEngine._execution_loop up to its while loop, call by call       *)
(* ---------------------------------------------------------------------- *)

\* most polls of _wait_for_game before its timeout
MaxWaitPolls == 2

\* what one poll of _wait_for_game meets: the stop event set, no screen
\* (capture_window returned None), a capture or classification that raises,
\* or a classified state
PollOutcomes == GameState \cup {"stopped", "no_screen", "capture_error"}

\* the launch of a loop thread: the cursor and the guide it finds, the polls
\* of _wait_for_game up to the timeout, the state the special handling
\* detects (or a capture that raises) and the end of open_map_and_wait
Startups ==
    {a \in [cursor : 0..1, guide : RunGuides,
            polls : UNION {[1..n -> PollOutcomes] : n \in 0..MaxWaitPolls},
            detected : GameState \cup {"capture_error"},
            map_wait : {"returned", "raised"}] :
        a.cursor <= Len(a.guide)}

\* a wait that takes a loading screen for a ready game as well
RECURSIVE WaitAcceptsLoading(_)
WaitAcceptsLoading(polls) ==
    IF polls = << >> THEN FALSE
    ELSE IF polls[1] = "stopped" THEN FALSE
    ELSE IF polls[1] \in {"world", "map", "loading"} THEN TRUE
    ELSE WaitAcceptsLoading(Tail(polls))

\* _wait_for_game: False when the stop event is set or the time is up, True
\* at the first poll classified World or Map; any other poll, a missing
\* screen and an exception (caught in the loop) lead to the next poll
RECURSIVE WaitForGameResult(_)
WaitForGameResult(polls) ==
    IF polls = << >> THEN FALSE
    ELSE IF polls[1] = "stopped" THEN FALSE
    ELSE IF polls[1] \in {"world", "map"} THEN TRUE
    ELSE WaitForGameResult(Tail(polls))

\* "if self.current_step == 0 and self.guide_steps:" and "if first_step.
\* action_type == ActionType.TELEPORT:"
InitialTeleportDue(a) ==
    a.cursor = 0 /\ a.guide # << >> /\ a.guide[1] = "teleport"

\* the end of the prologue: the engine state it wrote ("unchanged" if none),
\* the cursor, the navigator calls made and whether the while loop is entered
Prologue(st, c, calls, loop) ==
    [status |-> "returned", state |-> st, cursor |-> c, ran |-> calls,
     enters_loop |-> loop]

\* a prologue that opens the map whatever state it detects
ExecutionLoopStartAlwaysOpens(a) ==
    IF ~WaitForGameResult(a.polls)
    THEN Prologue("error", a.cursor, << >>, FALSE)
    ELSE IF ~InitialTeleportDue(a)
    THEN Prologue("unchanged", a.cursor, << >>, TRUE)
    ELSE IF a.detected = "capture_error"
    THEN Prologue("error", a.cursor, << >>, FALSE)
    ELSE IF a.map_wait = "raised"
    THEN Prologue("error", a.cursor, << "open_map_and_wait" >>, FALSE)
    ELSE Prologue("unchanged", a.cursor, << "open_map_and_wait" >>, TRUE)

\* _execution_loop before "while self.current_step < len(self.guide_steps)":
\* the wait for the game (ERROR and return when it fails), the special
\* handling of an initial teleport; an exception of the capture or of
\* open_map_and_wait reaches "except Exception: self.state = ERROR"
ExecutionLoopStart(a) ==
    IF ~WaitForGameResult(a.polls)
    THEN Prologue("error", a.cursor, << >>, FALSE)
    ELSE IF ~InitialTeleportDue(a)
    THEN Prologue("unchanged", a.cursor, << >>, TRUE)
    ELSE IF a.detected = "capture_error"
    THEN Prologue("error", a.cursor, << >>, FALSE)
    ELSE IF a.detected # "world"
    THEN Prologue("unchanged", a.cursor, << >>, TRUE)
    ELSE IF a.map_wait = "raised"
    THEN Prologue("error", a.cursor, << "open_map_and_wait" >>, FALSE)
    ELSE Prologue("unchanged", a.cursor, << "open_map_and_wait" >>, TRUE)

\* a loop thread runs up to its while loop
Launch ==
    /\ fn = "_execution_loop"
    /\ ret = Pending
    /\ ret' = ExecutionLoopStart(arg)
    /\ UNCHANGED << coreVars, navVars, fn, arg >>

StartupSpec == Applied("_execution_loop", Startups) /\ [][Launch]_vars

(* ---------------------------------------------------------------------- *)
(* DecisionEngine._handle_teleport, call by call                           *)
(* ---------------------------------------------------------------------- *)

\* what a Teleport step meets: how teleport_to_location, open_map_and_wait,
\* click_nearest_waypoint and close_map end if called (a navigator call
\* raises when its screen capture does)
TeleportRuns ==
    [teleport : {"success", "failure", "raised"},
     map_wait : {"opened", "timeout", "raised"},
     waypoint : {"success", "failure", "raised"},
     close : {"closed", "open", "raised"}]

\* the handler's outcome: its return value or the exception that leaves it
\* (the handler has no try/except), and the navigator calls it made
Reported(v, calls) == [status |-> "returned", value |-> v, ran |-> calls]

Escaped(calls) == [status |-> "raised", error |-> "Exception", ran |-> calls]

\* _handle_teleport(step): "return True" after a successful
\* teleport_to_location; otherwise the fallback: "return False" when the map
\* did not open, else click_nearest_waypoint, whose failure is only logged,
\* close_map, and "return True"
HandleTeleportRun(a) ==
    IF a.teleport = "raised" THEN Escaped(<< "teleport_to_location" >>)
    ELSE IF a.teleport = "success" THEN Reported(TRUE, << "teleport_to_location" >>)
    ELSE IF a.map_wait = "raised"
    THEN Escaped(<< "teleport_to_location", "open_map_and_wait" >>)
    ELSE IF a.map_wait = "timeout"
    THEN Reported(FALSE, << "teleport_to_location", "open_map_and_wait" >>)
    ELSE IF a.waypoint = "raised"
    THEN Escaped(<< "teleport_to_location", "open_map_and_wait",
                    "click_nearest_waypoint" >>)
    ELSE IF a.close = "raised"
    THEN Escaped(<< "teleport_to_location", "open_map_and_wait",
                    "click_nearest_waypoint", "close_map" >>)
    ELSE Reported(TRUE, << "teleport_to_location", "open_map_and_wait",
                           "click_nearest_waypoint", "close_map" >>)

\* a call of _handle_teleport
Teleport ==
    /\ fn = "_handle_teleport"
    /\ ret = Pending
    /\ ret' = HandleTeleportRun(arg)
    /\ UNCHANGED << coreVars, navVars, fn, arg >>

TeleportSpec == Applied("_handle_teleport", TeleportRuns) /\ [][Teleport]_vars

(* ---------------------------------------------------------------------- *)
(* Claims                                                                  *)
(* ---------------------------------------------------------------------- *)

\* a control call has returned and no other has been made since
Returned(c) == mpc = "idle" /\ call = c

\* C1: after pause() has returned, and after stop() has returned, the
\* controller's held-key set is empty, whatever the loop thread was doing
\* with hold_key / release_key during the call.
C1_HeldSetEmptyAfterPauseOrStop ==
    (Returned("pause") \/ Returned("stop")) => pressed_keys = {}

\* C2: while the engine state is Paused or Stopped (and the call that made it
\* so has returned) no key is down: every keyDown has had its keyUp, also the
\* one of a timed hold that was in flight.
C2_NoKeyDownWhilePausedOrStopped ==
    (mpc = "idle" /\ state \in {"paused", "stopped"}) => keys_down = {}

\* C3: when stop() has returned, the execution loop that stop() joined (the
\* one launched by the latest start()) has terminated: it runs no handler and
\* can dispatch no step afterwards.
C3_LoopTerminatedAfterStop ==
    (Returned("stop") /\ execution_thread # NoThread)
       => ~Alive(execution_thread)

\* C4: when stop() has returned the engine state is Stopped.
C4_StoppedAfterStop ==
    Returned("stop") => state = "stopped"

\* C5: once the engine state is Stopped, Completed or Error, it changes only
\* in the course of a reset() call.
C5_TerminalUntilReset ==
    [][ (state \in {"stopped", "completed", "error"} /\ state' # state)
          => (call = "reset" /\ mpc # "idle") ]_vars

\* C6: at most one step handler executes at any time.
C6_AtMostOneHandler ==
    Cardinality({t \in Loops : pc[t] \in InHandler}) <= 1

\* C7: within a run the steps are dispatched in list order and none is
\* skipped: the index a loop dispatches is the one it dispatched before or the
\* next one, and the cursor passes an index only by one, moved by a loop that
\* dispatched that index.
C7_StepsInOrder ==
    [][ \A t \in Loops :
          /\ (pc[t] = "fetch" /\ pc'[t] = "exec" /\ step[t] # NoStep)
                => step'[t] \in {step[t], step[t] + 1}
          /\ (pc[t] \in {"ret_ok", "ret_fail"} /\ pc'[t] = "top"
                /\ current_step' # current_step)
                => (step[t] = current_step /\ current_step' = current_step + 1)
      ]_vars

\* C8: whenever the engine state is Completed the cursor equals the number of
\* steps of the guide.
C8_CompletedAtEnd ==
    state = "completed" => current_step = NumSteps

\* C9: when a step's handler has returned failure, the recovery routine runs
\* and the cursor then advances by exactly one, whatever the recovery reports.
C9_AdvanceAfterFailure ==
    [][ \A t \in Loops :
          (pc[t] = "ret_fail" /\ pc'[t] # "ret_fail")
             => current_step' = current_step + 1 ]_vars

\* C10: in a run that is neither paused nor stopped, with the game detected or
\* the wait timed out and every call returning, the loop eventually reaches
\* Completed or Error.
C10_RunTerminates ==
    [](state = "running" => <>(state \in {"completed", "error"}))

\* the loop threads launched by the step
Launched == {t \in Loops : pc[t] = "dead" /\ pc'[t] = "wait_game"}

\* C11: start() called while the state is Running, or with an empty step list,
\* changes nothing (state, cursor, stop and pause signals as before, no loop
\* launched); in every other case it clears the stop and pause signals, sets
\* the state to Running and launches exactly one loop.  A loop is launched by
\* nothing else.
C11_StartEffect ==
    [][ /\ Start =>
             IF guide_steps = << >> \/ state = "running"
             THEN /\ UNCHANGED << state, current_step, stop_event, pause_event >>
                  /\ Launched = {}
             ELSE /\ state' = "running"
                  /\ ~stop_event'
                  /\ pause_event'
                  /\ Cardinality(Launched) = 1
                  /\ current_step' = current_step
        /\ Launched # {} => (Start /\ state # "running" /\ guide_steps # << >>)
      ]_vars

\* start() has taken effect from a state other than Idle and its loop runs
C11_Witness ==
    /\ Returned("start")
    /\ state = "running"
    /\ ~stop_event /\ pause_event
    /\ execution_thread # NoThread
    /\ IF execution_thread = NoThread THEN FALSE ELSE Alive(execution_thread)

\* C12: pause() has an effect only when the state is Running (the state becomes
\* Paused, the pause signal is raised, the controller is paused and the held
\* keys are released) and resume() only when the state is Paused (Running,
\* signal lowered, controller unpaused); called in any other state each leaves
\* the engine state, the cursor, the signals and the controller flags unchanged.
C12_PauseResumeEffect ==
    [][ /\ (mpc = "idle" /\ mpc' = "pause_set") => state = "running"
        /\ (PauseCall /\ state # "running")
              => UNCHANGED << engineVars, is_paused, is_emergency_stopped >>
        /\ (mpc = "pause_set" /\ mpc' # mpc)
              => /\ state' = "paused"
                 /\ ~pause_event'
                 /\ is_paused'
                 /\ keys_down' \cap pressed_keys = {}
                 /\ pressed_keys' = {}
                 /\ UNCHANGED << current_step, stop_event, is_emergency_stopped >>
        /\ (mpc = "idle" /\ mpc' = "resume_set") => state = "paused"
        /\ (ResumeCall /\ state # "paused")
              => UNCHANGED << engineVars, is_paused, is_emergency_stopped >>
        /\ (mpc = "resume_set" /\ mpc' # mpc)
              => /\ state' = "running"
                 /\ pause_event'
                 /\ ~is_paused'
                 /\ UNCHANGED << current_step, stop_event, is_emergency_stopped >>
      ]_vars

\* pause() has returned with its effect in place
C12_Witness ==
    /\ Returned("pause")
    /\ state = "paused"
    /\ ~pause_event
    /\ is_paused

\* C13: every change of the engine state is one of Idle -> Running,
\* Running -> Paused, Paused -> Running (made by resume()), Running -> Stopped,
\* Running -> Completed, Running -> Error, or part of a reset() call on its way
\* back to Idle; no other transition happens.
C13_OnlyListedTransitions ==
    [][ state' # state =>
          \/ state = "idle" /\ state' = "running"
          \/ state = "running"
                /\ state' \in {"paused", "stopped", "completed", "error"}
          \/ state = "paused" /\ state' = "running" /\ call' = "resume"
          \/ call = "reset" /\ mpc # "idle" /\ state' \in {"stopped", "idle"}
      ]_vars

\* C14: after reset() has returned, and until the next call that takes effect,
\* the state is Idle, the cursor is 0, both controller flags are clear and the
\* held-key set is empty, also when the previous loop had not exited at the
\* time stop()'s join timed out.
C14_CleanAfterReset ==
    Returned("reset") =>
       /\ state = "idle"
       /\ current_step = 0
       /\ ~is_paused
       /\ ~is_emergency_stopped
       /\ pressed_keys = {}

\* loop thread t ends on an exception that escaped to the loop's except clause
Raised(t) == pc[t] \in {"init_tp", "fetch", "exec"} /\ pc'[t] = "dead"

\* C15: an exception escaping the loop moves the engine to Error, and the
\* error message of the ExecutionProgress of that run is the exception's
\* message, not the empty string.
C15_ErrorMessageRecorded ==
    [][ \A t \in Loops :
          Raised(t) => (state' = "error" /\ progress'.error_message # "") ]_vars

C17_BlockedOperationsFail ==
    [][ \A t \in Loops :
          (pc[t] = "exec" /\ pc'[t] # "exec" /\ Blocked
             /\ Kind(t) \in {"move", "climb", "interact"})
             => (pc'[t] = "ret_fail" /\ keys_down' = keys_down) ]_vars

\* C18: a controller operation that holds a key (move_direction, the timed
\* hold) does not return, with success or with failure, leaving the key down.
C18_NoKeyLeftDown ==
    [][ \A t \in Loops :
          (pc[t] \in {"hold_sleep", "timed_down", "timed_hold"}
             /\ pc'[t] \in {"ret_ok", "ret_fail"})
             => KEY_FORWARD \notin keys_down' ]_vars

\* n iterations without a detection: a sample and a move each
Iterations(n) == [i \in 1..(2 * n) |-> IF i % 2 = 1 THEN "sample" ELSE "move"]

\* n attempts with a zoom-out between consecutive ones
Retries(n) ==
    IF n = 0 THEN << >>
    ELSE [i \in 1..(2 * n - 1) |-> IF i % 2 = 1 THEN "attempt" ELSE "zoom_out"]

Returns == {"success", "failure"}

\* C19: approach_and_interact returns a failure after exactly max_attempts
\* iterations (a sample and a move each) when the prompt is never detected;
\* at the first sample that shows the prompt it presses interact once and
\* returns, with no movement after it.
C19_ApproachIterations ==
    nav_op = "approach_and_interact" =>
       /\ (result \in Returns /\ nav_pc = "done") =>
             \/ /\ result = "failure"
                /\ attempt = max_attempts
                /\ events = Iterations(max_attempts)
             \/ /\ attempt < max_attempts
                /\ events = Iterations(attempt) \o << "sample", "interact" >>
       /\ (events # << >> /\ events[Len(events)] = "interact") => result \in Returns

\* the prompt never showed and the call has returned its failure after
\* max_attempts (two or more) iterations
C19_Witness ==
    /\ nav_op = "approach_and_interact"
    /\ max_attempts >= 2
    /\ result = "failure"
    /\ events = Iterations(max_attempts)

\* C20: teleport_to_location always returns a result and never raises; when
\* it fails it has made exactly max_retries attempts, with one zoom-out of the
\* map between consecutive attempts; it returns success as soon as the
\* teleport_to_waypoint of an attempt succeeds.
C20_TeleportRetries ==
    nav_op = "teleport_to_location" =>
       /\ result # "raised"
       /\ result = "failure" => events = Retries(max_attempts)
       /\ result = "success" =>
             \E n \in 1..max_attempts : events = Retries(n)

IsPoll(e) == e \in GameState

\* the states the polls of the operation have shown, in order
Polls == SelectSeq(events, IsPoll)

\* Loading at some poll and World at a later one
LoadingThenWorld(s) ==
    \E i, j \in DOMAIN s : i < j /\ s[i] = "loading" /\ s[j] = "world"

\* C21: teleport_to_waypoint reports success exactly when its polls have shown
\* Loading and, at a later poll, World (that poll being the last one); World
\* with no earlier Loading does not end the wait, and a wait that times out
\* without the sequence returns failure.
C21_SuccessAfterLoadingThenWorld ==
    nav_op = "teleport_to_waypoint" =>
       /\ result = "success" <=> LoadingThenWorld(Polls)
       /\ result = "success" => Polls[Len(Polls)] = "world"
       /\ (nav_pc = "done" /\ result \notin {"success", "raised"}) => result = "failure"

\* the wait saw World first, which did not end it, then Loading and World
C21_Witness ==
    /\ nav_op = "teleport_to_waypoint"
    /\ result = "success"
    /\ Polls = << "world", "loading", "world" >>

\* n polls that showed Dialog, with what operation op does at each
DialogRounds(n, op) ==
    IF op = "skip_dialog"
    THEN [i \in 1..(2 * n) |-> IF i % 2 = 1 THEN "dialog" ELSE "click"]
    ELSE [i \in 1..n |-> "dialog"]

\* C22: skip_dialog returns success at the first poll whose state is not
\* Dialog, having clicked once after each earlier poll (all of which showed
\* Dialog) and not after it; when every poll up to the timeout shows Dialog it
\* returns failure.  wait_for_dialog_end polls the same way, never clicks and
\* returns false on timeout.
C22_DialogPolling ==
    nav_op \in DialogOps =>
       /\ result # "success" => events = DialogRounds(attempt, nav_op)
       /\ result = "success" =>
             \E st \in GameState \ {"dialog"} :
                events = DialogRounds(attempt, nav_op) \o << st >>
       /\ (nav_pc = "done" /\ result \notin {"success", "raised"}) => result = "failure"

\* skip_dialog has returned success after two polls that showed Dialog
C22_Witness ==
    /\ nav_op = "skip_dialog"
    /\ result = "success"
    /\ attempt = 2
    /\ Len(events) = 5

\* turn_to_direction has returned
Turned == fn = "turn_to_direction" /\ ret.status = "returned"

\* p is n / d without its fraction
IsTruncation(p, n, d) ==
    IF n >= 0 THEN p * d <= n /\ n < (p + 1) * d
              ELSE (p - 1) * d < n /\ n <= p * d

\* the difference is congruent to target - current modulo 360 and one pointer
\* move of diff * 1500 / 360 truncated is issued
C23_CongruentOneMove ==
    /\ (ret.diff - (arg[1] - arg[2])) % 360 = 0
    /\ Len(ret.moves) = 1
    /\ ret.moves[1][2] = 0
    /\ IsTruncation(ret.moves[1][1], ret.diff * 1500, 360)

\* C23 as stated: turn_to_direction uses a difference congruent to target -
\* current modulo 360 that lies in the half-open interval (-180, 180], -180
\* being mapped to +180, and issues one pointer move of diff * 1500 / 360
\* truncated.
C23_HalfOpenInterval ==
    Turned => (ret.diff \in -179..180 /\ C23_CongruentOneMove)

\* C23, amended: the difference is congruent to target - current modulo 360
\* and lies in the closed interval [-180, 180]; a half turn keeps the sign of
\* target - current, so -180 stays -180; one pointer move of diff * 1500 / 360
\* truncated toward zero is issued.
C23_ClosedInterval ==
    Turned =>
       /\ ret.diff \in -180..180
       /\ ret.diff = -180 => arg[1] - arg[2] < 0
       /\ ret.diff = 180 => arg[1] - arg[2] > 0
       /\ C23_CongruentOneMove

\* turn_to_direction(350, 10) has used -20 and moved the pointer by -83
C23_Witness ==
    /\ Turned
    /\ arg = << 350, 10 >>
    /\ ret.diff = -20
    /\ ret.moves = << << -83, 0 >> >>

\* detect_game_state has returned or raised
Detected == fn = "detect_game_state" /\ ret.status # "pending"

\* the fixed order of the heuristics
Order == << "loading", "dialog", "map", "pause_menu", "main_menu", "world" >>

\* the heuristic of state g fires on frame f
Fires(g, f, res) ==
    CASE g = "loading" -> f.mean < 30
      [] g = "dialog" -> 20 < f.dialog_mean /\ f.dialog_mean < 80
      [] g = "map" -> f.blue > 15
      [] g = "pause_menu" -> 40 < f.mean /\ f.mean < 70
      [] g = "main_menu" -> FALSE
      [] g = "world" -> HasMinimap(f, res)

\* C24: what detect_game_state returns is the first state, in the order
\* Loading, Dialog, Map, PauseMenu, MainMenu, World, whose heuristic fires on
\* the frame, and Unknown when none fires; every frame darker than the dark
\* threshold is classified Loading whatever the other heuristics say, and
\* MainMenu is never returned.
C24_FirstMatchWins ==
    Detected =>
       /\ arg[1].mean < 30 => ret = Value("loading")
       /\ ret.status = "returned" =>
             /\ ret.value # "main_menu"
             /\ \A i \in DOMAIN Order :
                   (Fires(Order[i], arg[1], arg[2]) /\
                    \A j \in 1..(i - 1) : ~Fires(Order[j], arg[1], arg[2]))
                      => ret.value = Order[i]
             /\ (\A i \in DOMAIN Order : ~Fires(Order[i], arg[1], arg[2]))
                   => ret.value = "unknown"

\* a full frame on which the dialog, map and pause-menu heuristics fire
\* together has been classified Dialog
C24_Witness ==
    /\ Detected
    /\ arg[1].size = << 1920, 1080 >>
    /\ Fires("dialog", arg[1], arg[2])
    /\ Fires("map", arg[1], arg[2])
    /\ Fires("pause_menu", arg[1], arg[2])
    /\ ret = Value("dialog")

\* C25: detect_game_state never raises, whatever the size of the frame (a
\* frame too small for the dialog band or the minimap to be cropped from it is
\* to be answered with a state, Unknown, not with an error).
C25_NeverRaises == Detected => ret.status # "raised"

\* C29: while the engine is Running or Paused the guide is not replaced and
\* the cursor only advances by one (the loop's own advance): a load_guide()
\* or analyze_video() made during execution changes neither.
C29_GuideFixedWhileExecuting ==
    [][(state \in {"running", "paused"}) =>
          (guide_steps' = guide_steps /\
           current_step' \in {current_step, current_step + 1})]_vars

\* C30: no step's dispatch begins while the engine is Paused: once pause()
\* has returned, a loop thread starts no new step, whatever the interleaving
\* of pause() with the loop's pause checkpoint.
C30_NoDispatchWhilePaused ==
    [][\A t \in Loops :
          (pc[t] = "fetch" /\ pc'[t] = "exec") =>
             ~(state = "paused" /\ Returned("pause"))]_vars

\* find_template has returned or raised
Found == fn = "find_template" /\ ret.status # "pending"

\* intersection over union of two boxes (x, y, w, h), as << i, u >>
IoU(b1, b2) ==
    LET wi == Min(b1[1] + b1[3], b2[1] + b2[3]) - Max(b1[1], b2[1])
        hi == Min(b1[2] + b1[4], b2[2] + b2[4]) - Max(b1[2], b2[2])
        i == IF wi > 0 /\ hi > 0 THEN wi * hi ELSE 0
    IN  << i, b1[3] * b1[4] + b2[3] * b2[4] - i >>

Box(m) == << m.location[1], m.location[2], m.size[1], m.size[2] >>

\* C26: find_template returns at most max_results matches, in non-increasing
\* order of confidence, each with a confidence of at least the threshold, and
\* any two of them have an intersection over union of at most 0.5.
C26_ResultsBounded ==
    Found =>
       /\ ret.status = "returned"
       /\ Len(ret.value) <= arg.max_results
       /\ \A i \in DOMAIN ret.value :
             /\ ret.value[i].confidence >= arg.threshold
             /\ i > 1 => ret.value[i - 1].confidence >= ret.value[i].confidence
             /\ \A j \in DOMAIN ret.value :
                   i # j => LET o == IoU(Box(ret.value[i]), Box(ret.value[j]))
                            IN  2 * o[1] <= o[2]

\* a search with three places over the threshold, two of them overlapping by
\* more than half, has returned the two results asked for
C26_Witness ==
    /\ Found
    /\ Cardinality({c \in DOMAIN arg.response : arg.response[c] >= arg.threshold}) = 3
    /\ arg.name = "waypoint"
    /\ << 3, 1 >> \in DOMAIN arg.response
    /\ << 3, 2 >> \in DOMAIN arg.response
    /\ arg.max_results = 2
    /\ Len(ret.value) = 2

\* C27: suppression is idempotent: _non_max_suppression applied to its own
\* output returns the same list, the same elements in the same order.
C27_SuppressionIdempotent ==
    (fn = "_non_max_suppression" /\ ret.status = "returned") =>
       NonMaxSuppression(ret.value) = ret.value

\* a list of three candidates has lost one to suppression and the two kept
\* have the same confidence
C27_Witness ==
    /\ fn = "_non_max_suppression"
    /\ ret.status = "returned"
    /\ Len(arg) = 3
    /\ Len(ret.value) = 2
    /\ ret.value[1].confidence = ret.value[2].confidence

\* the template resized by the k-th scale is at least 10 pixels both ways
\* and no larger than the frame either way
Fits(size, k) ==
    LET w == (size[1] * SCALES[k]) \div 100
        h == (size[2] * SCALES[k]) \div 100
    IN  w >= 10 /\ h >= 10 /\ w <= FRAME[1] /\ h <= FRAME[2]

\* C28: find_template returns the empty list, without an error, for a name
\* that is not in the library and for a template that exceeds the frame at
\* each of the five scales; a scale at which the resized template is under 10
\* pixels or larger than the frame, in either dimension, contributes no match.
C28_EmptyAndSkippedScales ==
    Found =>
       /\ arg.name \notin DOMAIN Templates => ret = Value(<< >>)
       /\ arg.name \in DOMAIN Templates =>
             /\ (\A k \in DOMAIN SCALES :
                    ScaledSize(Templates[arg.name], k)[1] > FRAME[1] \/
                    ScaledSize(Templates[arg.name], k)[2] > FRAME[2])
                   => ret = Value(<< >>)
             /\ ret.status = "returned"
             /\ \A i \in DOMAIN ret.value :
                   \E k \in DOMAIN SCALES :
                      /\ Fits(Templates[arg.name], k)
                      /\ ret.value[i].size = ScaledSize(Templates[arg.name], k)

\* a search for a template that fits at two scales only, with responses at
\* scales that fit and at scales that do not, has returned a match
C28_Witness ==
    /\ Found
    /\ arg.name = "statue"
    /\ \E c \in DOMAIN arg.response :
          ~Fits(Templates[arg.name], c[1]) /\ arg.response[c] >= arg.threshold
    /\ Len(ret.value) = 1

\* the elements of a list
Range(s) == {s[i] : i \in DOMAIN s}

\* how often e is in list s
Count(e, s) == Cardinality({i \in DOMAIN s : s[i] = e})

\* two matches overlap by more than half
Overlapping(m1, m2) ==
    LET o == IoU(Box(m1), Box(m2)) IN 2 * o[1] > o[2]

\* first place of e in list s
FirstAt(e, s) == CHOOSE i \in DOMAIN s : s[i] = e /\ \A j \in 1..(i - 1) : s[j] # e

\* C39: suppression loses no detection: the kept list is made of candidates
\* of the input, each no more often than it is there; the first candidate of
\* highest confidence is kept (at the head); every candidate that was dropped
\* overlaps by more than 0.5 a kept one whose confidence is at least its own;
\* kept candidates of equal confidence stay in their order of encounter.
C39_NoDetectionLost ==
    (fn = "_non_max_suppression" /\ ret.status = "returned") =>
       /\ \A e \in Range(ret.value) : Count(e, ret.value) <= Count(e, arg)
       /\ arg # << >> =>
             \E i \in DOMAIN arg :
                /\ \A j \in DOMAIN arg : arg[j].confidence <= arg[i].confidence
                /\ \A j \in 1..(i - 1) : arg[j].confidence < arg[i].confidence
                /\ ret.value # << >>
                /\ ret.value[1] = arg[i]
       /\ \A j \in DOMAIN arg :
             arg[j] \notin Range(ret.value) =>
                \E k \in DOMAIN ret.value :
                   /\ Overlapping(arg[j], ret.value[k])
                   /\ ret.value[k].confidence >= arg[j].confidence
       /\ \A a, b \in DOMAIN ret.value :
             (a < b /\ ret.value[a].confidence = ret.value[b].confidence)
                => FirstAt(ret.value[a], arg) < FirstAt(ret.value[b], arg)

\* of two overlapping candidates of the same, highest confidence the first
\* has been kept and the second dropped, a third one being kept as well
C39_Witness ==
    /\ fn = "_non_max_suppression"
    /\ ret.status = "returned"
    /\ Len(arg) = 3
    /\ arg[1].confidence = arg[2].confidence
    /\ arg[3].confidence < arg[1].confidence
    /\ Overlapping(arg[1], arg[2])
    /\ ret.value = << arg[1], arg[3] >>

\* _ai_recovery has returned
Recovered == fn = "_ai_recovery" /\ ret.status = "returned"

\* the branch of the recovery for classified state st
BranchOf(st) ==
    CASE st = "dialog" -> "skip_dialog"
      [] st = "map" -> "close_map"
      [] st = "loading" -> "sleep"
      [] OTHER -> "_ai_decide_action"

\* C31: a recovery acts on the classified state: Dialog -> skip the dialog,
\* Map -> close the map, Loading -> wait, each reported as recovered once the
\* branch has returned; any other state -> the AI fallback, whose result is
\* reported.  Exactly one branch runs per failure.
C31_OneBranchPerFailure ==
    (Recovered /\ arg.st # "capture_error") =>
       /\ ret.ran = << BranchOf(arg.st) >>
       /\ (arg.st = "dialog" /\ arg.skip # "raised") => ret.value
       /\ (arg.st = "map" /\ arg.close # "raised") => ret.value
       /\ arg.st = "loading" => ret.value
       /\ arg.st \notin {"dialog", "map", "loading"} => ret.value = arg.ai
       /\ (arg.skip # "raised" /\ arg.close # "raised")
             => ret.value = AiRecovery(arg.st, arg.ai)

\* a failure with the map open: the map was closed, nothing else ran, and
\* the step is reported as recovered although the AI fallback would fail
C31_Witness ==
    /\ Recovered
    /\ arg.st = "map"
    /\ ~arg.ai
    /\ ret.ran = << "close_map" >>
    /\ ret.value

\* a loop thread has reached its while loop or has returned before it
LoopLaunched == fn = "_execution_loop" /\ ret.status = "returned"

\* the wait for the game saw World or Map at some poll, before any stop
GameSeen(polls) ==
    \E i \in DOMAIN polls :
       /\ polls[i] \in {"world", "map"}
       /\ \A j \in 1..(i - 1) : polls[j] # "stopped"

\* C32: when the first step of the guide is a Teleport, the cursor is 0 and
\* the state detected at loop start is World, the map-open is issued before
\* the first dispatch; when the first step is no Teleport, or the detected
\* state is not World, or the cursor is not 0, none is issued.
C32_MapOpenedForInitialTeleport ==
    (LoopLaunched /\ GameSeen(arg.polls)) =>
       LET due == /\ arg.guide # << >>
                  /\ arg.guide[1] = "teleport"
                  /\ arg.cursor = 0
                  /\ arg.detected = "world"
       IN  /\ due => ret.ran = << "open_map_and_wait" >>
           /\ ~due => ret.ran = << >>
           /\ (arg.detected # "capture_error" /\ arg.map_wait # "raised")
                 => ret.enters_loop

\* a run on a guide that begins with a Teleport, found in the world: the map
\* was opened and the loop is entered
C32_Witness ==
    /\ LoopLaunched
    /\ arg.guide = << "teleport", "move", "interact" >>
    /\ arg.cursor = 0
    /\ arg.polls = << "loading", "world" >>
    /\ arg.detected = "world"
    /\ ret.ran = << "open_map_and_wait" >>
    /\ ret.enters_loop

\* C37: no step is dispatched and no map-open issued before the classifier
\* has reported World or Map at least once since the launch; when it never
\* does before the wait times out, the loop ends in Error, the cursor
\* unchanged and no step dispatched.
C37_NothingBeforeGameSeen ==
    LoopLaunched =>
       /\ (ret.enters_loop \/ ret.ran # << >>) => GameSeen(arg.polls)
       /\ ~GameSeen(arg.polls) =>
             /\ ret.state = "error"
             /\ ret.cursor = arg.cursor
             /\ ret.ran = << >>
             /\ ~ret.enters_loop

\* a wait that saw a loading screen and a dialog and then timed out ended the
\* run in Error before anything was done
C37_Witness ==
    /\ LoopLaunched
    /\ arg.polls = << "loading", "dialog" >>
    /\ arg.guide = << "teleport" >>
    /\ arg.detected = "world"
    /\ ret.state = "error"
    /\ ~ret.enters_loop

\* C33: whenever start() has put the engine in Running, the controller is
\* neither paused nor emergency-stopped, also for a start() that follows a
\* stop() without a reset() and for a start() made while Paused.
C33_ControllerFreeWhenStarted ==
    (Returned("start") /\ state = "running") => ~Blocked

\* C34: whenever the execution loop has moved the engine to Completed or to
\* Error, a progress update carrying that state is eventually delivered to
\* the on_progress observer.
C34_FinalStateDelivered ==
    \A s \in {"completed", "error"} : (state = s) ~> (progress.state = s)

\* the loop's positions between two steps: the stop test, the wait on the pause
\* event and the fetch of the next step
Checkpoints == {"top", "pause_wait", "fetch"}

\* C35: whenever a loop thread stands at a checkpoint between two steps, the
\* controller's set of held keys is empty: the handler that returned before has
\* released every key it held
C35_NoKeyHeldAtCheckpoint ==
    \A t \in Loops : (pc[t] \in Checkpoints) => pressed_keys = {}

\* C36: the cursor stays within 0 .. len(guide_steps), and a loop thread that is
\* about to fetch its step (the stop event clear) finds the cursor below the
\* end of the list
C36_CursorWithinGuide ==
    /\ current_step \in 0..NumSteps
    /\ \A t \in Loops : (pc[t] = "fetch" /\ ~stop_event) => current_step < NumSteps

\* a teleport completed during the call: teleport_to_location returned
\* success, or the fallback's click_nearest_waypoint was called and did
TeleportCompleted ==
    \/ arg.teleport = "success"
    \/ /\ \E i \in DOMAIN ret.ran : ret.ran[i] = "click_nearest_waypoint"
       /\ arg.waypoint = "success"

\* C38: a Teleport handler that reports success has completed a teleport, and
\* one that returns without a completed teleport reports failure
C38_SuccessMeansTeleported ==
    (fn = "_handle_teleport" /\ ret.status = "returned")
        => (ret.value <=> TeleportCompleted)

====
